---- MODULE Spec2Model ----
(***************************************************************************)
(* Model of the snippets application: the REST views (views.py), the admin *)
(* classes (admin.py), the audit mixin (mixins.py) and the models          *)
(* (models.py).  One action per request handler; every ORM write of a      *)
(* handler may fail, and outside the admin's atomic views a write that     *)
(* succeeded before the failure stays committed (autocommit).              *)
(***************************************************************************)
EXTENDS Integers, FiniteSets, Sequences, TLC

\* ---------------------------------------------------------------- bounds
MaxClock == 2       \* number of requests that reach a database write
MaxUserId == 3      \* highest primary key handed out for a user
MaxSnippetId == 1   \* highest primary key handed out for a snippet

\* ------------------------------------------------------------- constants
NULL == 0           \* SQL NULL of a foreign key / DateTimeField
Anon == 0           \* AnonymousUser, a request without credentials
NoParam == "<absent>"   \* the query string carries no include_deleted

UserIds == 1..MaxUserId
SnippetIds == 1..MaxSnippetId
LogIds == 1..(MaxClock * MaxUserId)
Codes == {"print(1)", "print(2)"}
Titles == {"T"}
IncludeDeletedValues == {NoParam, "true", "TRUE", "false", "bogus"}
\* the values sent along with the writes
WriteParams == {NoParam, "true"}
SAFE_METHODS == {"GET", "HEAD", "OPTIONS"}
ACTION_CHOICES == {"create", "update", "destroy"}

VARIABLES users, snippets, auditlog, nextUserId, nextSnippetId, nextLogId,
          clock, resp, workers

vars == <<users, snippets, auditlog, nextUserId, nextSnippetId, nextLogId,
          clock, resp, workers>>
db == <<users, snippets, auditlog, nextUserId, nextSnippetId, nextLogId, clock>>

\* --------------------------------------------------------------- helpers
\* str.lower() on the values a query parameter takes here
Lower(s) == IF s = "TRUE" THEN "true" ELSE s

\* request.query_params.get("include_deleted", "false")
QueryParam(param) == IF param = NoParam THEN "false" ELSE param

\* the value a serializer/form field leaves on the instance: the submitted
\* value when the field is present, the instance's value otherwise
Field(submitted, old) == IF submitted = {} THEN old ELSE CHOOSE v \in submitted : TRUE

Remove(f, k) == [i \in (DOMAIN f) \ {k} |-> f[i]]

is_staff(caller) == caller \in DOMAIN users /\ users[caller].is_staff

Now == clock + 1

\* pygments highlight(code, lexer, formatter) of Snippet.save, as a function
\* of the fields it reads: the lexer is the language's, the formatter is built
\* from style, linenos ("table" or off) and the title when there is one
Highlight(code, language, style, linenos, title) ==
    <<"html", language, style, IF linenos THEN "table" ELSE "off",
      IF title # "" THEN <<title>> ELSE <<>>, code>>

\* AuditLog.objects.create(user, model_name, object_id, action); object_id is
\* a CharField, timestamp defaults to datetime.now
AuditLogCreate(log, id, user, model_name, pk, action) ==
    log @@ (id :> [user |-> user, model_name |-> model_name,
                   object_id |-> ToString(pk), action |-> action,
                   timestamp |-> Now])

\* --------------------------------------------------------------- payloads
\* a field is {} when the request does not carry it, {v} when it carries v.
\* username stands for the fields the model does not track (username, email,
\* is_active): only whether the required one is present
UserPayloads ==
    [username : {{}, {"name"}},
     is_staff : {{}},
     is_deleted : {{}, {TRUE}, {FALSE}}]

SnippetPayloads ==
    [code : {{}} \cup {{c} : c \in Codes},
     title : {{}},
     linenos : {{}},
     owner : {{}} \cup {{u} : u \in UserIds}]

\* UserSerializer.is_valid: username is required
UserValid(p) == p.username # {}

\* SnippetSerializer.is_valid: code is required
SnippetValid(p) == p.code # {}

\* ModelSerializer.create / update on a SoftDeleteUser
UserFromPayload(p, old) ==
    [is_staff |-> Field(p.is_staff, old.is_staff),
     is_deleted |-> Field(p.is_deleted, old.is_deleted),
     deleted_at |-> old.deleted_at]

UserDefaults ==
    [is_staff |-> FALSE, is_deleted |-> FALSE, deleted_at |-> NULL]

\* SoftDeleteUser.delete(): the flag and the stamp.  No handler calls it:
\* the views and the admin set is_deleted themselves and save
SoftDeleteUser_delete(u) == [u EXCEPT !.is_deleted = TRUE, !.deleted_at = Now]

\* the model's field defaults; owner and code have none
SnippetDefaults ==
    [owner |-> NULL, title |-> "", code |-> "", linenos |-> FALSE,
     language |-> "python", style |-> "friendly", highlighted |-> <<>>]

\* SnippetSerializer with owner as a writable field
SnippetFromPayload_OwnerWritable(p, old) ==
    [old EXCEPT !.code = Field(p.code, @),
                !.title = Field(p.title, @),
                !.linenos = Field(p.linenos, @),
                !.owner = Field(p.owner, @)]

\* ModelSerializer.create / update on a Snippet: owner is a ReadOnlyField and
\* highlighted is not a field of the serializer, so the payload's values for
\* them are dropped
SnippetFromPayload(p, old) ==
    [old EXCEPT !.code = Field(p.code, @),
                !.title = Field(p.title, @),
                !.linenos = Field(p.linenos, @)]

\* Snippet.save() writing the row with highlighted as it stands
SnippetSave_KeepHighlighted(s) == s

\* Snippet.save(): highlighted is recomputed, then the row is written
SnippetSave(s) ==
    [s EXCEPT !.highlighted = Highlight(s.code, s.language, s.style, s.linenos, s.title)]

\* ------------------------------------------------------------ permissions
\* permissions.IsAuthenticated
IsAuthenticated(caller) == caller # Anon

\* permissions.IsAuthenticatedOrReadOnly
IsAuthenticatedOrReadOnly(caller, method) ==
    method \in SAFE_METHODS \/ caller # Anon

\* permissions.IsAdminUser
IsAdminUser(caller) == caller # Anon /\ is_staff(caller)

\* snippets.permissions.IsStaffOrReadOnly (request level)
IsStaffOrReadOnly(caller, method) ==
    method \in SAFE_METHODS \/ is_staff(caller)

\* snippets.permissions.IsOwnerOrReadOnly (object level)
IsOwnerOrReadOnly(caller, method, obj) ==
    method \in SAFE_METHODS \/ obj.owner = caller

\* ---------------------------------------------------------------- response
\* the request being answered and how it ended: one request is handled at a
\* time, and its response is sent before the next one is taken
Response(via, model, action, caller, target, param, status, rows) ==
    [via |-> via, model |-> model, action |-> action, caller |-> caller,
     staff |-> is_staff(caller), target |-> target, param |-> param,
     status |-> status, rows |-> rows, fault |-> "none"]

\* the response of a request in which the ORM write `write` raised
Failed(response, write) == [response EXCEPT !.fault = write]

NoResponse ==
    [via |-> "none", model |-> "none", action |-> "none", caller |-> Anon,
     staff |-> FALSE, target |-> 0, param |-> NoParam, status |-> "none",
     rows |-> {}, fault |-> "none"]

Idle == resp = NoResponse

\* the requests in flight at the same time, each in a worker of its own
Workers == {"w1", "w2"}

\* a worker that has not taken its request yet
NotStarted ==
    [pc |-> "start", caller |-> Anon, staff |-> FALSE, pk |-> 0, param |-> NoParam,
     instance |-> UserDefaults, status |-> "none"]

Callers == {Anon} \cup DOMAIN users
Staff == {u \in DOMAIN users : users[u].is_staff}

Init ==
    /\ users = (1 :> [is_staff |-> TRUE, is_deleted |-> FALSE, deleted_at |-> NULL])
            @@ (2 :> [is_staff |-> FALSE, is_deleted |-> FALSE, deleted_at |-> NULL])
    /\ snippets = <<>>
    /\ auditlog = <<>>
    /\ nextUserId = 3
    /\ nextSnippetId = 1
    /\ nextLogId = 1
    /\ clock = 0
    /\ resp = NoResponse
    /\ workers = [w \in Workers |-> NotStarted]

\* ------------------------------------------------------------- user views
\* UserList.get_queryset without the include_deleted branch
UserListQueryset_AlwaysFiltered(caller, param) ==
    {u \in DOMAIN users : ~users[u].is_deleted}

\* UserList.get_queryset
UserListQueryset(caller, param) ==
    IF is_staff(caller) /\ Lower(QueryParam(param)) = "true"
    THEN DOMAIN users
    ELSE {u \in DOMAIN users : ~users[u].is_deleted}

\* UserDetail.get_queryset without the is_staff condition on include_deleted
UserDetailQueryset_AnyCaller(caller, param) ==
    IF Lower(QueryParam(param)) = "true"
    THEN DOMAIN users
    ELSE {u \in DOMAIN users : ~users[u].is_deleted}

\* UserDetail.get_queryset
UserDetailQueryset(caller, param) ==
    LET include_deleted == IF is_staff(caller)
                           THEN Lower(QueryParam(param)) = "true"
                           ELSE FALSE
    IN IF include_deleted
       THEN DOMAIN users
       ELSE {u \in DOMAIN users : ~users[u].is_deleted}

\* UserList.permission_classes with IsAdminUser left out
UserListPermission_AuthenticatedOnly(caller) ==
    IF ~IsAuthenticated(caller) THEN "not_authenticated" ELSE "pass"

\* UserList.permission_classes = [IsAuthenticated, IsAdminUser]
UserListPermission(caller) ==
    IF ~IsAuthenticated(caller) THEN "not_authenticated"
    ELSE IF ~IsAdminUser(caller) THEN "forbidden"
    ELSE "pass"

\* UserDetail.permission_classes = [IsAuthenticated, IsStaffOrReadOnly]
UserDetailPermission(caller, method) ==
    IF ~IsAuthenticated(caller) THEN "not_authenticated"
    ELSE IF ~IsStaffOrReadOnly(caller, method) THEN "forbidden"
    ELSE "pass"

\* GET /users/
UserListGetHandler(caller, param) ==
    LET R(status, rows) ==
            Response("api", "SoftDeleteUser", "list", caller, 0, param, status, rows)
    IN
    /\ UNCHANGED db
    /\ resp' =
        IF UserListPermission(caller) # "pass"
        THEN R(UserListPermission(caller), {})
        ELSE IF Lower(QueryParam(param)) \notin {"true", "false"}
        THEN R("bad_request", {})
        ELSE R("ok", UserListQueryset(caller, param))

\* GET /users/<pk>/
UserRetrieveHandler(caller, pk, param) ==
    LET R(status, rows) ==
            Response("api", "SoftDeleteUser", "retrieve", caller, pk, param, status, rows)
    IN
    /\ UNCHANGED db
    /\ resp' =
        IF UserDetailPermission(caller, "GET") # "pass"
        THEN R(UserDetailPermission(caller, "GET"), {})
        ELSE IF pk \notin UserDetailQueryset(caller, param)
        THEN R("not_found", {})
        ELSE R("ok", {pk})

\* POST /users/ : CreateModelMixin.create, then UserList.perform_create
\* (serializer.save() and no log_action)
UserCreateHandler(caller) ==
    LET R(target, status) ==
            Response("api", "SoftDeleteUser", "create", caller, target, NoParam, status, {})
    IN
    IF UserListPermission(caller) # "pass"
    THEN /\ resp' = R(0, UserListPermission(caller))
         /\ UNCHANGED db
    ELSE \E p \in UserPayloads :
         IF ~UserValid(p)
         THEN /\ resp' = R(0, "bad_request")
              /\ UNCHANGED db
         ELSE IF ~is_staff(caller)
         THEN /\ resp' = R(0, "forbidden")
              /\ UNCHANGED db
         ELSE /\ clock < MaxClock
              /\ nextUserId <= MaxUserId
              /\ clock' = clock + 1
              /\ UNCHANGED <<snippets, auditlog, nextSnippetId, nextLogId>>
              /\ \E fail \in {"none", "save"} :
                 IF fail = "save"
                 THEN /\ resp' = Failed(R(0, "bad_request"), "save")
                      /\ UNCHANGED <<users, nextUserId>>
                 ELSE /\ users' = users @@ (nextUserId :> UserFromPayload(p, UserDefaults))
                      /\ nextUserId' = nextUserId + 1
                      /\ resp' = R(nextUserId, "created")

\* PUT /users/<pk>/ : UpdateModelMixin.update, then UserDetail.perform_update,
\* which runs AuditLogMixin.perform_update
UserUpdateHandler(caller, pk, param) ==
    LET R(status) ==
            Response("api", "SoftDeleteUser", "update", caller, pk, param, status, {})
    IN
    IF UserDetailPermission(caller, "PUT") # "pass"
    THEN /\ resp' = R(UserDetailPermission(caller, "PUT"))
         /\ UNCHANGED db
    ELSE IF pk \notin UserDetailQueryset(caller, param)
    THEN /\ resp' = R("not_found")
         /\ UNCHANGED db
    ELSE \E p \in UserPayloads :
         IF ~UserValid(p)
         THEN /\ resp' = R("bad_request")
              /\ UNCHANGED db
         ELSE IF ~is_staff(caller)
         THEN /\ resp' = R("forbidden")
              /\ UNCHANGED db
         ELSE /\ clock < MaxClock
              /\ clock' = clock + 1
              /\ UNCHANGED <<snippets, nextUserId, nextSnippetId>>
              /\ \E fail \in {"none", "save", "log"} :
                 IF fail = "save"
                 THEN /\ resp' = Failed(R("bad_request"), "save")
                      /\ UNCHANGED <<users, auditlog, nextLogId>>
                 ELSE /\ users' = [users EXCEPT ![pk] = UserFromPayload(p, users[pk])]
                      /\ IF fail = "log"
                         THEN /\ resp' = Failed(R("bad_request"), "log")
                              /\ UNCHANGED <<auditlog, nextLogId>>
                         ELSE /\ auditlog' = AuditLogCreate(auditlog, nextLogId, caller,
                                                            "SoftDeleteUser", pk, "update")
                              /\ nextLogId' = nextLogId + 1
                              /\ resp' = R("ok")

\* DELETE /users/<pk>/ : DestroyModelMixin.destroy, then UserDetail.perform_destroy
UserDestroyHandler(caller, pk, param) ==
    LET R(status) ==
            Response("api", "SoftDeleteUser", "destroy", caller, pk, param, status, {})
    IN
    IF UserDetailPermission(caller, "DELETE") # "pass"
    THEN /\ resp' = R(UserDetailPermission(caller, "DELETE"))
         /\ UNCHANGED db
    ELSE IF pk \notin UserDetailQueryset(caller, param)
    THEN /\ resp' = R("not_found")
         /\ UNCHANGED db
    ELSE IF ~is_staff(caller)
    THEN /\ resp' = R("forbidden")
         /\ UNCHANGED db
    ELSE IF users[pk].is_deleted
    THEN /\ resp' = R("forbidden")
         /\ UNCHANGED db
    ELSE /\ clock < MaxClock
         /\ clock' = clock + 1
         /\ UNCHANGED <<snippets, nextUserId, nextSnippetId>>
         /\ \E fail \in {"none", "save", "log"} :
            IF fail = "save"
            THEN /\ resp' = Failed(R("bad_request"), "save")
                 /\ UNCHANGED <<users, auditlog, nextLogId>>
            ELSE /\ users' = [users EXCEPT ![pk].is_deleted = TRUE]
                 /\ IF fail = "log"
                    THEN /\ resp' = Failed(R("bad_request"), "log")
                         /\ UNCHANGED <<auditlog, nextLogId>>
                    ELSE /\ auditlog' = AuditLogCreate(auditlog, nextLogId, caller,
                                                       "SoftDeleteUser", pk, "destroy")
                         /\ nextLogId' = nextLogId + 1
                         /\ resp' = R("no_content")

\* ---------------------------------------------------------- snippet views
\* SnippetList / SnippetDetail: permission_classes, request level.
\* IsOwnerOrReadOnly is an object-level permission: it passes every request
SnippetPermission(caller, method) ==
    IF ~IsAuthenticatedOrReadOnly(caller, method) THEN "not_authenticated"
    ELSE "pass"

\* SnippetDetail.get_object: get_object_or_404(Snippet, pk=...), and nothing
\* else: the object-level permissions are not consulted
SnippetDetailGetObject(caller, method, pk) ==
    IF pk \notin DOMAIN snippets THEN "not_found" ELSE "pass"

\* GET /snippets/
SnippetListGetHandler(caller) ==
    /\ UNCHANGED db
    /\ resp' = Response("api", "Snippet", "list", caller, 0, NoParam, "ok",
                        DOMAIN snippets)

\* GET /snippets/<pk>/
SnippetRetrieveHandler(caller, pk) ==
    LET R(status, rows) ==
            Response("api", "Snippet", "retrieve", caller, pk, NoParam, status, rows)
    IN
    /\ UNCHANGED db
    /\ resp' =
        IF SnippetPermission(caller, "GET") # "pass"
        THEN R(SnippetPermission(caller, "GET"), {})
        ELSE IF SnippetDetailGetObject(caller, "GET", pk) # "pass"
        THEN R(SnippetDetailGetObject(caller, "GET", pk), {})
        ELSE R("ok", {pk})

\* POST /snippets/ : CreateModelMixin.create, then SnippetList.perform_create
SnippetCreateHandler(caller) ==
    LET R(target, status) ==
            Response("api", "Snippet", "create", caller, target, NoParam, status, {})
    IN
    IF SnippetPermission(caller, "POST") # "pass"
    THEN /\ resp' = R(0, SnippetPermission(caller, "POST"))
         /\ UNCHANGED db
    ELSE \E p \in SnippetPayloads :
         IF ~SnippetValid(p)
         THEN /\ resp' = R(0, "bad_request")
              /\ UNCHANGED db
         ELSE /\ clock < MaxClock
              /\ nextSnippetId <= MaxSnippetId
              /\ clock' = clock + 1
              /\ UNCHANGED <<users, nextUserId>>
              /\ \E fail \in {"none", "save", "log"} :
                 IF fail = "save"
                 THEN /\ resp' = Failed(R(0, "bad_request"), "save")
                      /\ UNCHANGED <<snippets, nextSnippetId, auditlog, nextLogId>>
                 ELSE /\ snippets' = snippets @@
                             (nextSnippetId :> SnippetSave(
                                 [SnippetFromPayload(p, SnippetDefaults)
                                    EXCEPT !.owner = caller]))
                      /\ nextSnippetId' = nextSnippetId + 1
                      /\ IF fail = "log"
                         THEN /\ resp' = Failed(R(nextSnippetId, "bad_request"), "log")
                              /\ UNCHANGED <<auditlog, nextLogId>>
                         ELSE /\ auditlog' = AuditLogCreate(auditlog, nextLogId, caller,
                                                "Snippet", nextSnippetId, "create")
                              /\ nextLogId' = nextLogId + 1
                              /\ resp' = R(nextSnippetId, "created")

\* PUT /snippets/<pk>/ : UpdateModelMixin.update, then SnippetDetail.perform_update,
\* which runs AuditLogMixin.perform_update
SnippetUpdateHandler(caller, pk) ==
    LET R(status) ==
            Response("api", "Snippet", "update", caller, pk, NoParam, status, {})
    IN
    IF SnippetPermission(caller, "PUT") # "pass"
    THEN /\ resp' = R(SnippetPermission(caller, "PUT"))
         /\ UNCHANGED db
    ELSE IF SnippetDetailGetObject(caller, "PUT", pk) # "pass"
    THEN /\ resp' = R(SnippetDetailGetObject(caller, "PUT", pk))
         /\ UNCHANGED db
    ELSE \E p \in SnippetPayloads :
         IF ~SnippetValid(p)
         THEN /\ resp' = R("bad_request")
              /\ UNCHANGED db
         ELSE /\ clock < MaxClock
              /\ clock' = clock + 1
              /\ UNCHANGED <<users, nextUserId, nextSnippetId>>
              /\ \E fail \in {"none", "save", "log"} :
                 IF fail = "save"
                 THEN /\ resp' = Failed(R("bad_request"), "save")
                      /\ UNCHANGED <<snippets, auditlog, nextLogId>>
                 ELSE /\ snippets' = [snippets EXCEPT ![pk] =
                                         SnippetSave(SnippetFromPayload(p, @))]
                      /\ IF fail = "log"
                         THEN /\ resp' = Failed(R("bad_request"), "log")
                              /\ UNCHANGED <<auditlog, nextLogId>>
                         ELSE /\ auditlog' = AuditLogCreate(auditlog, nextLogId, caller,
                                                            "Snippet", pk, "update")
                              /\ nextLogId' = nextLogId + 1
                              /\ resp' = R("ok")

\* DELETE /snippets/<pk>/ : DestroyModelMixin.destroy, then
\* SnippetDetail.perform_destroy, which runs AuditLogMixin.perform_destroy:
\* log_action first, instance.delete() second
SnippetDestroyHandler(caller, pk) ==
    LET R(status) ==
            Response("api", "Snippet", "destroy", caller, pk, NoParam, status, {})
    IN
    IF SnippetPermission(caller, "DELETE") # "pass"
    THEN /\ resp' = R(SnippetPermission(caller, "DELETE"))
         /\ UNCHANGED db
    ELSE IF SnippetDetailGetObject(caller, "DELETE", pk) # "pass"
    THEN /\ resp' = R(SnippetDetailGetObject(caller, "DELETE", pk))
         /\ UNCHANGED db
    ELSE /\ clock < MaxClock
         /\ clock' = clock + 1
         /\ UNCHANGED <<users, nextUserId, nextSnippetId>>
         /\ \E fail \in {"none", "log", "delete"} :
            IF fail = "log"
            THEN /\ resp' = Failed(R("bad_request"), "log")
                 /\ UNCHANGED <<snippets, auditlog, nextLogId>>
            ELSE /\ auditlog' = AuditLogCreate(auditlog, nextLogId, caller,
                                               "Snippet", pk, "destroy")
                 /\ nextLogId' = nextLogId + 1
                 /\ IF fail = "delete"
                    THEN /\ resp' = Failed(R("bad_request"), "delete")
                         /\ UNCHANGED snippets
                    ELSE /\ snippets' = Remove(snippets, pk)
                         /\ resp' = R("no_content")

\* GET /auditlogs/ with IsAuthenticated in place of IsAdminUser
AuditLogListHandler_AnyAuthenticated(caller) ==
    /\ UNCHANGED db
    /\ resp' = IF IsAuthenticated(caller)
               THEN Response("api", "AuditLog", "list", caller, 0, NoParam, "ok",
                             DOMAIN auditlog)
               ELSE Response("api", "AuditLog", "list", caller, 0, NoParam,
                             "not_authenticated", {})

\* GET /auditlogs/
AuditLogListHandler(caller) ==
    /\ UNCHANGED db
    /\ resp' = IF IsAdminUser(caller)
               THEN Response("api", "AuditLog", "list", caller, 0, NoParam, "ok",
                             DOMAIN auditlog)
               ELSE Response("api", "AuditLog", "list", caller, 0, NoParam,
                             IF caller = Anon THEN "not_authenticated" ELSE "forbidden",
                             {})

\* ------------------------------------------------------------------ admin
\* The admin site serves staff only.  Its add, change and delete views run in
\* one transaction: an exception leaving save_model or delete_model rolls the
\* view's writes back.  Its actions (the changelist) run in autocommit.
\* The ValidationError the mixin raises is rest_framework's (mixins.py line 3):
\* an API view answers it with 400, the admin is a Django view and has no
\* handler for it, so the exception leaves the view and the admin user gets
\* the server's error response ("error").
AdminResponse(model, action, actor, target, status, rows) ==
    Response("admin", model, action, actor, target, NoParam, status, rows)

\* the change form as submitted: is_staff as the row has it (the staff flag is
\* set at construction, see Init), is_deleted either way
UserForms == [is_staff : {{}}, is_deleted : {{TRUE}, {FALSE}}]
SnippetForms == [owner : {{u} : u \in UserIds}, code : {{c} : c \in Codes},
                 title : {{t} : t \in Titles}, linenos : {{}}]

\* the admin's ModelForm for a Snippet: every editable field; highlighted is
\* in readonly_fields and is not part of the form
SnippetFromForm(form, old) ==
    [old EXCEPT !.owner = Field(form.owner, @),
                !.code = Field(form.code, @),
                !.title = Field(form.title, @),
                !.linenos = Field(form.linenos, @)]

\* SnippetAdmin.save_model -> AuditLogMixin.save_model; pk = 0 is the add form
AdminSnippetSaveHandler(actor, pk) ==
    LET action == IF pk = 0 THEN "create" ELSE "update"
        id == IF pk = 0 THEN nextSnippetId ELSE pk
    IN
    /\ pk = 0 \/ pk \in DOMAIN snippets
    /\ pk = 0 => nextSnippetId <= MaxSnippetId
    /\ clock < MaxClock
    /\ UNCHANGED <<users, nextUserId>>
    /\ \E form \in SnippetForms, fail \in {"none", "save", "log"} :
       /\ form.owner \subseteq DOMAIN users
       /\ IF fail # "none"
          THEN /\ resp' = Failed(AdminResponse("Snippet", action, actor, pk, "error", {}), fail)
               /\ UNCHANGED <<snippets, nextSnippetId, auditlog, nextLogId, clock>>
          ELSE /\ clock' = clock + 1
               /\ snippets' =
                    IF pk = 0
                    THEN snippets @@ (id :> SnippetSave(SnippetFromForm(form, SnippetDefaults)))
                    ELSE [snippets EXCEPT ![pk] = SnippetSave(SnippetFromForm(form, @))]
               /\ nextSnippetId' = IF pk = 0 THEN nextSnippetId + 1 ELSE nextSnippetId
               /\ auditlog' = AuditLogCreate(auditlog, nextLogId, actor, "Snippet", id, action)
               /\ nextLogId' = nextLogId + 1
               /\ resp' = AdminResponse("Snippet", action, actor, id, "ok", {})

\* SnippetAdmin.delete_model -> AuditLogMixin.delete_model: log_action, then
\* ModelAdmin.delete_model (obj.delete())
AdminSnippetDeleteHandler(actor, pk) ==
    /\ pk \in DOMAIN snippets
    /\ clock < MaxClock
    /\ UNCHANGED <<users, nextUserId, nextSnippetId>>
    /\ \E fail \in {"none", "log", "delete"} :
       IF fail # "none"
       THEN /\ resp' = Failed(AdminResponse("Snippet", "destroy", actor, pk, "error", {}), fail)
            /\ UNCHANGED <<snippets, auditlog, nextLogId, clock>>
       ELSE /\ clock' = clock + 1
            /\ auditlog' = AuditLogCreate(auditlog, nextLogId, actor, "Snippet", pk, "destroy")
            /\ nextLogId' = nextLogId + 1
            /\ snippets' = Remove(snippets, pk)
            /\ resp' = AdminResponse("Snippet", "destroy", actor, pk, "ok", {})

\* CustomUserAdmin.save_model -> AuditLogMixin.save_model
AdminUserSaveHandler(actor, pk) ==
    LET action == IF pk = 0 THEN "create" ELSE "update"
        id == IF pk = 0 THEN nextUserId ELSE pk
    IN
    /\ pk = 0 \/ pk \in DOMAIN users
    /\ pk = 0 => nextUserId <= MaxUserId
    /\ clock < MaxClock
    /\ UNCHANGED <<snippets, nextSnippetId>>
    /\ \E form \in UserForms, fail \in {"none", "save", "log"} :
       IF fail # "none"
       THEN /\ resp' = Failed(AdminResponse("SoftDeleteUser", action, actor, pk, "error", {}), fail)
            /\ UNCHANGED <<users, nextUserId, auditlog, nextLogId, clock>>
       ELSE /\ clock' = clock + 1
            /\ users' = IF pk = 0
                        THEN users @@ (id :> UserFromPayload(form, UserDefaults))
                        ELSE [users EXCEPT ![pk] = UserFromPayload(form, @)]
            /\ nextUserId' = IF pk = 0 THEN nextUserId + 1 ELSE nextUserId
            /\ auditlog' = AuditLogCreate(auditlog, nextLogId, actor,
                                          "SoftDeleteUser", id, action)
            /\ nextLogId' = nextLogId + 1
            /\ resp' = AdminResponse("SoftDeleteUser", action, actor, id, "ok", {})

\* CustomUserAdmin.delete_model: is_deleted = True, save, log_action
AdminUserDeleteHandler(actor, pk) ==
    /\ pk \in DOMAIN users
    /\ clock < MaxClock
    /\ UNCHANGED <<snippets, nextUserId, nextSnippetId>>
    /\ \E fail \in {"none", "save", "log"} :
       IF fail # "none"
       THEN /\ resp' = Failed(AdminResponse("SoftDeleteUser", "destroy", actor, pk, "error", {}), fail)
            /\ UNCHANGED <<users, auditlog, nextLogId, clock>>
       ELSE /\ clock' = clock + 1
            /\ users' = [users EXCEPT ![pk].is_deleted = TRUE]
            /\ auditlog' = AuditLogCreate(auditlog, nextLogId, actor,
                                          "SoftDeleteUser", pk, "destroy")
            /\ nextLogId' = nextLogId + 1
            /\ resp' = AdminResponse("SoftDeleteUser", "destroy", actor, pk, "ok", {})

\* the loop of CustomUserAdmin.soft_delete_users over the users still to visit
\* (the changelist hands them over newest first), threading the tables
RECURSIVE SoftDeleteLoop(_, _, _, _, _)
SoftDeleteLoop(todo, us, log, id, actor) ==
    IF todo = {}
    THEN [users |-> us, auditlog |-> log, nextLogId |-> id]
    ELSE LET u == CHOOSE x \in todo : \A y \in todo : y <= x IN
         IF us[u].is_deleted
         THEN SoftDeleteLoop(todo \ {u}, us, log, id, actor)
         ELSE SoftDeleteLoop(todo \ {u}, [us EXCEPT ![u].is_deleted = TRUE],
                             AuditLogCreate(log, id, actor, "SoftDeleteUser", u, "destroy"),
                             id + 1, actor)

\* CustomUserAdmin.soft_delete_users(request, queryset); an exception at user
\* `at` ends the loop there and keeps what was written before it
AdminSoftDeleteUsersHandler(actor, queryset) ==
    /\ queryset # {}
    /\ queryset \subseteq DOMAIN users
    /\ clock < MaxClock
    /\ clock' = clock + 1
    /\ UNCHANGED <<snippets, nextUserId, nextSnippetId>>
    /\ \/ LET done == SoftDeleteLoop(queryset, users, auditlog, nextLogId, actor) IN
          /\ users' = done.users
          /\ auditlog' = done.auditlog
          /\ nextLogId' = done.nextLogId
          /\ resp' = AdminResponse("SoftDeleteUser", "soft_delete_users", actor, 0, "ok",
                                   {u \in queryset : ~users[u].is_deleted})
       \/ \E at \in {u \in queryset : ~users[u].is_deleted}, fail \in {"save", "log"} :
          LET before == SoftDeleteLoop({u \in queryset : u > at}, users, auditlog,
                                       nextLogId, actor)
          IN
          /\ users' = IF fail = "save" THEN before.users
                      ELSE [before.users EXCEPT ![at].is_deleted = TRUE]
          /\ auditlog' = before.auditlog
          /\ nextLogId' = before.nextLogId
          /\ resp' = Failed(AdminResponse("SoftDeleteUser", "soft_delete_users", actor, at,
                                          "error",
                                          {u \in queryset : ~users[u].is_deleted /\ u > at}),
                            fail)

\* the admin's "delete selected" action on users: CustomUserAdmin inherits
\* ModelAdmin.delete_queryset, which is queryset.delete(): the rows go without
\* SoftDeleteUser.delete() or delete_model being called; Snippet.owner is
\* on_delete=CASCADE and AuditLog.user is on_delete=SET_NULL
AdminDeleteSelectedUsersHandler(actor, queryset) ==
    /\ queryset # {}
    /\ queryset \subseteq DOMAIN users
    /\ clock < MaxClock
    /\ clock' = clock + 1
    /\ users' = [u \in (DOMAIN users) \ queryset |-> users[u]]
    /\ snippets' = [s \in {x \in DOMAIN snippets : snippets[x].owner \notin queryset}
                    |-> snippets[s]]
    /\ auditlog' = [e \in DOMAIN auditlog |->
                      IF auditlog[e].user \in queryset
                      THEN [auditlog[e] EXCEPT !.user = NULL]
                      ELSE auditlog[e]]
    /\ UNCHANGED <<nextUserId, nextSnippetId, nextLogId>>
    /\ resp' = AdminResponse("SoftDeleteUser", "delete_selected", actor, 0, "ok", queryset)

\* AuditLogAdmin is a plain ModelAdmin: its change view saves the entry
AdminAuditLogChangeHandler(actor, id) ==
    /\ id \in DOMAIN auditlog
    /\ clock < MaxClock
    /\ clock' = clock + 1
    /\ \E a \in ACTION_CHOICES :
          auditlog' = [auditlog EXCEPT ![id].action = a]
    /\ UNCHANGED <<users, snippets, nextUserId, nextSnippetId, nextLogId>>
    /\ resp' = AdminResponse("AuditLog", "update", actor, id, "ok", {})

\* AuditLogAdmin is a plain ModelAdmin: its delete view deletes the entry
AdminAuditLogDeleteHandler(actor, id) ==
    /\ id \in DOMAIN auditlog
    /\ clock < MaxClock
    /\ clock' = clock + 1
    /\ auditlog' = Remove(auditlog, id)
    /\ UNCHANGED <<users, snippets, nextUserId, nextSnippetId, nextLogId>>
    /\ resp' = AdminResponse("AuditLog", "destroy", actor, id, "ok", {})

\* the response leaves; the worker takes the next request
SendResponse ==
    /\ ~Idle
    /\ resp' = NoResponse
    /\ UNCHANGED db
    /\ UNCHANGED workers

\* a request is taken when the previous response has left
UserListGet ==
    /\ Idle
    /\ \E c \in Callers, q \in IncludeDeletedValues : UserListGetHandler(c, q)
    /\ UNCHANGED workers

UserRetrieve ==
    /\ Idle
    /\ \E c \in Callers, pk \in UserIds, q \in IncludeDeletedValues : UserRetrieveHandler(c, pk, q)
    /\ UNCHANGED workers

UserCreate ==
    /\ Idle
    /\ \E c \in Callers : UserCreateHandler(c)
    /\ UNCHANGED workers

UserUpdate ==
    /\ Idle
    /\ \E c \in Callers, pk \in UserIds, q \in WriteParams : UserUpdateHandler(c, pk, q)
    /\ UNCHANGED workers

UserDestroy ==
    /\ Idle
    /\ \E c \in Callers, pk \in UserIds, q \in WriteParams : UserDestroyHandler(c, pk, q)
    /\ UNCHANGED workers

SnippetListGet ==
    /\ Idle
    /\ \E c \in Callers : SnippetListGetHandler(c)
    /\ UNCHANGED workers

SnippetRetrieve ==
    /\ Idle
    /\ \E c \in Callers, pk \in SnippetIds : SnippetRetrieveHandler(c, pk)
    /\ UNCHANGED workers

SnippetCreate ==
    /\ Idle
    /\ \E c \in Callers : SnippetCreateHandler(c)
    /\ UNCHANGED workers

SnippetUpdate ==
    /\ Idle
    /\ \E c \in Callers, pk \in SnippetIds : SnippetUpdateHandler(c, pk)
    /\ UNCHANGED workers

SnippetDestroy ==
    /\ Idle
    /\ \E c \in Callers, pk \in SnippetIds : SnippetDestroyHandler(c, pk)
    /\ UNCHANGED workers

AuditLogList ==
    /\ Idle
    /\ \E c \in Callers : AuditLogListHandler(c)
    /\ UNCHANGED workers

AdminSnippetSave ==
    /\ Idle
    /\ \E a \in Staff, pk \in {0} \cup SnippetIds : AdminSnippetSaveHandler(a, pk)
    /\ UNCHANGED workers

AdminSnippetDelete ==
    /\ Idle
    /\ \E a \in Staff, pk \in SnippetIds : AdminSnippetDeleteHandler(a, pk)
    /\ UNCHANGED workers

AdminUserSave ==
    /\ Idle
    /\ \E a \in Staff, pk \in {0} \cup UserIds : AdminUserSaveHandler(a, pk)
    /\ UNCHANGED workers

AdminUserDelete ==
    /\ Idle
    /\ \E a \in Staff, pk \in UserIds : AdminUserDeleteHandler(a, pk)
    /\ UNCHANGED workers

AdminSoftDeleteUsers ==
    /\ Idle
    /\ \E a \in Staff, qs \in SUBSET UserIds : AdminSoftDeleteUsersHandler(a, qs)
    /\ UNCHANGED workers

AdminDeleteSelectedUsers ==
    /\ Idle
    /\ \E a \in Staff, qs \in SUBSET UserIds : AdminDeleteSelectedUsersHandler(a, qs)
    /\ UNCHANGED workers

AdminAuditLogChange ==
    /\ Idle
    /\ \E a \in Staff, id \in LogIds : AdminAuditLogChangeHandler(a, id)
    /\ UNCHANGED workers

AdminAuditLogDelete ==
    /\ Idle
    /\ \E a \in Staff, id \in LogIds : AdminAuditLogDeleteHandler(a, id)
    /\ UNCHANGED workers

Next ==
    \/ UserListGet
    \/ UserRetrieve
    \/ UserCreate
    \/ UserUpdate
    \/ UserDestroy
    \/ SnippetListGet
    \/ SnippetRetrieve
    \/ SnippetCreate
    \/ SnippetUpdate
    \/ SnippetDestroy
    \/ AuditLogList
    \/ AdminSnippetSave
    \/ AdminSnippetDelete
    \/ AdminUserSave
    \/ AdminUserDelete
    \/ AdminAuditLogChange
    \/ AdminAuditLogDelete
    \/ AdminSoftDeleteUsers
    \/ AdminDeleteSelectedUsers
    \/ SendResponse

Spec == Init /\ [][Next]_vars

\* ------------------------------------------- concurrent destroys of a user
\* DELETE /users/<pk>/ handled by several workers at once.  A request is three
\* database steps with nothing holding the row in between (no transaction, no
\* select_for_update): the SELECT of get_object, the UPDATE of instance.save()
\* and the INSERT of log_action.

\* DestroyModelMixin.destroy: check_permissions, then get_object reads the row
\* from UserDetail.get_queryset into the worker's instance
DestroyGetObject(w) ==
    /\ workers[w].pc = "start"
    /\ \E caller \in Callers, pk \in UserIds, param \in WriteParams :
          LET req == [workers[w] EXCEPT !.caller = caller, !.staff = is_staff(caller),
                                        !.pk = pk, !.param = param]
          IN workers' = [workers EXCEPT ![w] =
                IF UserDetailPermission(caller, "DELETE") # "pass"
                THEN [req EXCEPT !.pc = "done",
                                 !.status = UserDetailPermission(caller, "DELETE")]
                ELSE IF pk \notin UserDetailQueryset(caller, param)
                THEN [req EXCEPT !.pc = "done", !.status = "not_found"]
                ELSE [req EXCEPT !.pc = "fetched", !.instance = users[pk]]]
    /\ UNCHANGED <<db, resp>>

\* UserDetail.perform_destroy up to instance.save(): the checks read the
\* instance the worker fetched, and save() writes that instance's fields
DestroySave(w) ==
    /\ workers[w].pc = "fetched"
    /\ UNCHANGED <<snippets, auditlog, nextUserId, nextSnippetId, nextLogId, resp>>
    /\ IF ~workers[w].staff \/ workers[w].instance.is_deleted
       THEN /\ workers' = [workers EXCEPT ![w].pc = "done", ![w].status = "forbidden"]
            /\ UNCHANGED <<users, clock>>
       ELSE \E fail \in {"none", "save"} :
            IF fail = "save"
            THEN /\ workers' = [workers EXCEPT ![w].pc = "done",
                                               ![w].status = "bad_request"]
                 /\ UNCHANGED <<users, clock>>
            ELSE /\ users' = [users EXCEPT ![workers[w].pk] =
                                 [workers[w].instance EXCEPT !.is_deleted = TRUE]]
                 /\ clock' = clock + 1
                 /\ workers' = [workers EXCEPT ![w].pc = "saved"]

\* UserDetail.perform_destroy: log_action after the save, then the response
DestroyLog(w) ==
    /\ workers[w].pc = "saved"
    /\ UNCHANGED <<users, snippets, nextUserId, nextSnippetId, clock, resp>>
    /\ \E fail \in {"none", "log"} :
       IF fail = "log"
       THEN /\ workers' = [workers EXCEPT ![w].pc = "done", ![w].status = "bad_request"]
            /\ UNCHANGED <<auditlog, nextLogId>>
       ELSE /\ auditlog' = AuditLogCreate(auditlog, nextLogId, workers[w].caller,
                                          "SoftDeleteUser", workers[w].pk, "destroy")
            /\ nextLogId' = nextLogId + 1
            /\ workers' = [workers EXCEPT ![w].pc = "done", ![w].status = "no_content"]

GetObject == \E w \in Workers : DestroyGetObject(w)

Save == \E w \in Workers : DestroySave(w)

Log == \E w \in Workers : DestroyLog(w)

NextConcurrent ==
    \/ GetObject
    \/ Save
    \/ Log

SpecConcurrent == Init /\ [][NextConcurrent]_vars

\* ================================================================ claims
Success == {"ok", "created", "no_content"}
NewEntries == (DOMAIN auditlog') \ (DOMAIN auditlog)

\* C1: every successful create, update or destroy of a Snippet or a User, through
\* the API or the admin, adds exactly one AuditLog entry, whose model_name,
\* object_id, action and user are those of the instance, the action and the
\* acting user.
C1_ExactlyOneAuditEntry ==
    [][(/\ resp'.model \in {"Snippet", "SoftDeleteUser"}
        /\ resp'.action \in ACTION_CHOICES
        /\ resp'.status \in Success)
       => /\ Cardinality(NewEntries) = 1
          /\ \A id \in DOMAIN auditlog : id \in DOMAIN auditlog'
          /\ \A id \in NewEntries :
                /\ auditlog'[id].model_name = resp'.model
                /\ auditlog'[id].object_id = ToString(resp'.target)
                /\ auditlog'[id].action = resp'.action
                /\ auditlog'[id].user = resp'.caller]_vars

\* C2: an update or delete of a snippet by an authenticated user who is not its
\* owner is rejected and leaves the snippet and the audit log unchanged; a read
\* of an existing snippet succeeds for every caller.
C2_OnlyOwnerWrites ==
    [][/\ (/\ resp'.via = "api"
           /\ resp'.model = "Snippet"
           /\ resp'.action \in {"update", "destroy"}
           /\ resp'.caller # Anon
           /\ resp'.target \in DOMAIN snippets
           /\ ~IsOwnerOrReadOnly(resp'.caller, "PUT", snippets[resp'.target]))
          => /\ resp'.status \notin Success
             /\ snippets' = snippets
             /\ auditlog' = auditlog
       /\ (/\ resp'.via = "api"
           /\ resp'.model = "Snippet"
           /\ resp'.action = "retrieve"
           /\ resp'.target \in DOMAIN snippets)
          => resp'.status = "ok"]_vars

\* C3: no operation removes a User row; a destroyed user has is_deleted = TRUE
\* and a staff retrieve with include_deleted=true returns it.
C3_UserRowsNeverRemoved ==
    [][/\ \A u \in DOMAIN users : u \in DOMAIN users'
       /\ (/\ resp'.model = "SoftDeleteUser"
           /\ resp'.action = "destroy"
           /\ resp'.status \in Success)
          => /\ resp'.target \in DOMAIN users'
             /\ users'[resp'.target].is_deleted
       /\ (/\ resp'.model = "SoftDeleteUser"
           /\ resp'.action = "retrieve"
           /\ resp'.staff
           /\ resp'.param = "true"
           /\ resp'.target \in DOMAIN users
           /\ users[resp'.target].is_deleted)
          => /\ resp'.status = "ok"
             /\ resp'.rows = {resp'.target}]_vars

\* C4: every successful destroy of a User (API, admin delete, admin soft-delete
\* action) sets is_deleted = TRUE and stamps deleted_at, as SoftDeleteUser.delete
\* does: a user soft-deleted by a destroy has a non-null deleted_at.
C4_DestroyStampsDeletedAt ==
    [][(/\ resp'.model = "SoftDeleteUser"
        /\ resp'.action \in {"destroy", "soft_delete_users"}
        /\ resp'.status \in Success)
       => \A u \in (IF resp'.action = "destroy" THEN {resp'.target} ELSE resp'.rows) :
             /\ users'[u].is_deleted
             /\ users'[u].deleted_at # NULL]_vars

\* C5: destroying a User whose is_deleted is already TRUE ends in an error,
\* leaves the row unchanged and adds no AuditLog entry, through the API (with or
\* without include_deleted=true) and through the admin delete.
C5_DestroyDeletedRejected ==
    [][(/\ resp'.model = "SoftDeleteUser"
        /\ resp'.action = "destroy"
        /\ resp'.target \in DOMAIN users
        /\ users[resp'.target].is_deleted)
       => /\ resp'.status \notin Success
          /\ users' = users
          /\ auditlog' = auditlog]_vars

\* C6: an authenticated non-staff caller never receives a row with
\* is_deleted = TRUE from the user list or retrieve, whatever include_deleted
\* says: the list is refused, a retrieve of a soft-deleted user is not found, a
\* retrieve of a user that is not deleted succeeds.
C6_NonStaffNeverSeesDeleted ==
    (/\ resp.model = "SoftDeleteUser"
     /\ resp.action \in {"list", "retrieve"}
     /\ resp.caller # Anon
     /\ ~resp.staff)
    => /\ \A u \in resp.rows : u \in DOMAIN users /\ ~users[u].is_deleted
       /\ resp.action = "list" => resp.status = "forbidden" /\ resp.rows = {}
       /\ (resp.action = "retrieve" /\ resp.target \in DOMAIN users)
          => IF users[resp.target].is_deleted
             THEN resp.status = "not_found" /\ resp.rows = {}
             ELSE resp.status = "ok" /\ resp.rows = {resp.target}

\* a non-staff caller asked for a soft-deleted user with include_deleted=true
C6_Witness ==
    /\ resp.model = "SoftDeleteUser"
    /\ resp.action = "retrieve"
    /\ resp.caller # Anon
    /\ ~resp.staff
    /\ resp.param = "true"
    /\ resp.target \in DOMAIN users
    /\ users[resp.target].is_deleted
    /\ resp.status = "not_found"

\* C7: for a staff caller the users visible through the list and the retrieve
\* are all users with include_deleted=true, and the users with
\* is_deleted = FALSE when the parameter is absent or false.
C7_StaffVisibility ==
    (/\ resp.model = "SoftDeleteUser"
     /\ resp.action \in {"list", "retrieve"}
     /\ resp.staff
     /\ resp.param \in {"true", "false", NoParam})
    => LET visible == IF resp.param = "true"
                      THEN DOMAIN users
                      ELSE {u \in DOMAIN users : ~users[u].is_deleted}
       IN IF resp.action = "list"
          THEN resp.status = "ok" /\ resp.rows = visible
          ELSE IF resp.target \in visible
               THEN resp.status = "ok" /\ resp.rows = {resp.target}
               ELSE resp.status = "not_found" /\ resp.rows = {}

\* a staff caller listed with include_deleted=true and got a soft-deleted user
C7_Witness ==
    /\ resp.model = "SoftDeleteUser"
    /\ resp.action = "list"
    /\ resp.staff
    /\ resp.param = "true"
    /\ resp.status = "ok"
    /\ \E u \in resp.rows : users[u].is_deleted

\* C8: every create, update or destroy request on a user by an authenticated
\* non-staff caller ends forbidden (not a validation error, not a success) and
\* leaves every user row and the audit log unchanged.
C8_NonStaffWritesForbidden ==
    [][(/\ resp'.via = "api"
        /\ resp'.model = "SoftDeleteUser"
        /\ resp'.action \in ACTION_CHOICES
        /\ resp'.caller # Anon
        /\ ~resp'.staff)
       => /\ resp'.status = "forbidden"
          /\ users' = users
          /\ auditlog' = auditlog]_vars

\* a non-staff caller asked to destroy a soft-deleted user and was refused
C8_Witness ==
    /\ resp.via = "api"
    /\ resp.model = "SoftDeleteUser"
    /\ resp.action = "destroy"
    /\ resp.caller # Anon
    /\ ~resp.staff
    /\ resp.target \in DOMAIN users
    /\ users[resp.target].is_deleted
    /\ resp.status = "forbidden"

\* C9: an AuditLog entry is written only after the mutation it records is
\* committed, also when the save or delete fails after the log call: an entry
\* added by a request records a create or update of a row that is there, or a
\* destroy that happened (the snippet is gone, the user is marked deleted).
C9_LogOnlyAfterCommit ==
    [][\A id \in NewEntries :
          LET e == auditlog'[id] IN
          /\ (e.model_name = "Snippet" /\ e.action = "destroy")
             => \A s \in DOMAIN snippets' : ToString(s) # e.object_id
          /\ (e.model_name = "Snippet" /\ e.action \in {"create", "update"})
             => \E s \in DOMAIN snippets' : ToString(s) = e.object_id
          /\ (e.model_name = "SoftDeleteUser" /\ e.action = "destroy")
             => \E u \in DOMAIN users' : ToString(u) = e.object_id /\ users'[u].is_deleted
          /\ (e.model_name = "SoftDeleteUser" /\ e.action \in {"create", "update"})
             => \E u \in DOMAIN users' : ToString(u) = e.object_id]_vars

\* C10: AuditLog entries are write-once: every entry stays, with the user,
\* model_name, object_id, action and timestamp it was created with.
C10_AuditLogWriteOnce ==
    [][\A id \in DOMAIN auditlog :
          /\ id \in DOMAIN auditlog'
          /\ auditlog'[id] = auditlog[id]]_vars

\* C11: whenever the AuditLog write of a create, update or destroy fails, the
\* request ends with a validation error (400) returned to the caller, in every
\* API view and every admin class that uses AuditLogMixin.
C11_LogFailureIsValidationError ==
    [][resp'.fault = "log" => resp'.status = "bad_request"]_vars

\* C12: a user's is_deleted goes from FALSE to TRUE only by a staff destroy (the
\* API destroy, the admin delete, the admin soft-delete action) and from TRUE to
\* FALSE only by a staff update; no update request sets it, and no request of a
\* non-staff caller changes it (stated for the requests in which no write fails).
C12_UserTransitions ==
    [][resp'.fault = "none" =>
       \A u \in (DOMAIN users) \cap (DOMAIN users') :
          /\ (~users[u].is_deleted /\ users'[u].is_deleted)
             => /\ resp'.action \in {"destroy", "soft_delete_users"}
                /\ resp'.staff
          /\ (users[u].is_deleted /\ ~users'[u].is_deleted)
             => /\ resp'.action = "update"
                /\ resp'.staff]_vars

\* C13: in every reachable state each stored snippet's highlighted is the
\* highlighting function applied to its current code, language, style, linenos
\* and title.
C13_HighlightedIsDerived ==
    \A s \in DOMAIN snippets :
        snippets[s].highlighted =
            Highlight(snippets[s].code, snippets[s].language, snippets[s].style,
                      snippets[s].linenos, snippets[s].title)

\* a snippet that has a title was updated through the API, and its highlighted
\* is the function of the fields it has now
C13_Witness ==
    /\ resp.via = "api"
    /\ resp.model = "Snippet"
    /\ resp.action = "update"
    /\ resp.status = "ok"
    /\ resp.target \in DOMAIN snippets
    /\ snippets[resp.target].title # ""
    /\ snippets[resp.target].highlighted =
          Highlight(snippets[resp.target].code, "python", "friendly", FALSE,
                    snippets[resp.target].title)

\* C14: the audit-log list answers a staff caller with the stored entries, and
\* refuses every non-staff or unauthenticated caller, returning no entry.
C14_AuditLogStaffOnly ==
    (/\ resp.via = "api"
     /\ resp.model = "AuditLog"
     /\ resp.action = "list")
    => IF resp.staff
       THEN resp.status = "ok" /\ resp.rows = DOMAIN auditlog
       ELSE resp.status \in {"forbidden", "not_authenticated"} /\ resp.rows = {}

\* an authenticated non-staff caller asked for the audit log while it held
\* entries, and was refused
C14_Witness ==
    /\ resp.via = "api"
    /\ resp.model = "AuditLog"
    /\ resp.action = "list"
    /\ resp.caller # Anon
    /\ ~resp.staff
    /\ auditlog # <<>>
    /\ resp.status = "forbidden"
    /\ resp.rows = {}

\* C15: no change to a Snippet or User row persists without its AuditLog entry;
\* in particular a request whose audit write failed leaves the user and snippet
\* rows as they were.
C15_FailedAuditLeavesNoMutation ==
    [][resp'.fault = "log" => (users' = users /\ snippets' = snippets)]_vars

\* C16: on the user list and the user retrieve, a request of a staff caller
\* whose include_deleted is neither "true" nor "false" (in any case) ends in a
\* validation error and returns no user row.
C16_InvalidIncludeDeletedRejected ==
    (/\ resp.via = "api"
     /\ resp.model = "SoftDeleteUser"
     /\ resp.action \in {"list", "retrieve"}
     /\ resp.staff
     /\ resp.action = "retrieve" => resp.target \in DOMAIN users
     /\ Lower(QueryParam(resp.param)) \notin {"true", "false"})
    => /\ resp.status = "bad_request"
       /\ resp.rows = {}

\* C17: destroy followed by restore is a round trip: the staff update that
\* restores a soft-deleted user (is_deleted=false) succeeds and the user is
\* visible again.  Stated for the first half: a staff update request on a
\* user that a destroy soft-deleted reaches that user, it is never answered
\* "not found".
C17_RestoreReachesDeletedUser ==
    [][(/\ resp'.via = "api"
        /\ resp'.model = "SoftDeleteUser"
        /\ resp'.action = "update"
        /\ resp'.staff
        /\ resp'.target \in DOMAIN users
        /\ users[resp'.target].is_deleted
        /\ \E id \in DOMAIN auditlog :
              /\ auditlog[id].model_name = "SoftDeleteUser"
              /\ auditlog[id].object_id = ToString(resp'.target)
              /\ auditlog[id].action = "destroy")
       => resp'.status # "not_found"]_vars

\* C19: a snippet created through the API is owned by the caller of the create
\* request, and no API request changes the owner of a stored snippet, whoever
\* sends it and whatever its payload carries.
C19_OwnerFixedAtCreation ==
    [][resp'.via = "api" =>
       /\ \A s \in (DOMAIN snippets) \cap (DOMAIN snippets') :
             snippets'[s].owner = snippets[s].owner
       /\ \A s \in (DOMAIN snippets') \ (DOMAIN snippets) :
             snippets'[s].owner = resp'.caller]_vars

\* a caller who is not the owner updated a snippet through the API, and the
\* snippet still belongs to its owner
C19_Witness ==
    /\ resp.via = "api"
    /\ resp.model = "Snippet"
    /\ resp.action = "update"
    /\ resp.status = "ok"
    /\ resp.target \in DOMAIN snippets
    /\ snippets[resp.target].owner # resp.caller
    /\ snippets[resp.target].owner \in DOMAIN users

\* C18: of the destroy requests in flight for one user that was active, at most
\* one ends in success and at most one destroy entry is recorded for the user.
C18_AtMostOneDestroySucceeds ==
    \A pk \in UserIds :
        /\ Cardinality({w \in Workers : /\ workers[w].pk = pk
                                         /\ workers[w].status = "no_content"}) <= 1
        /\ Cardinality({id \in DOMAIN auditlog :
                            /\ auditlog[id].model_name = "SoftDeleteUser"
                            /\ auditlog[id].object_id = ToString(pk)
                            /\ auditlog[id].action = "destroy"}) <= 1

====
